---- MODULE Spec2Model ----
(***************************************************************************)
(* Model of the deet debugger (proj-1/deet): the command loop of           *)
(* Debugger::run, the traced child handled by Inferior, the byte patch of  *)
(* Inferior::write_byte, the frame-pointer walk of print_backtrace and the *)
(* breakpoint address parser.                                              *)
(*                                                                         *)
(* A 64-bit word is a tuple of 8 bytes, least significant byte first       *)
(* (x86-64 is little-endian, so byte i of the tuple is the byte at address *)
(* aligned_addr + i - 1).  Shifts and masks are computed on that tuple bit *)
(* for bit, so nothing is lost to the checker's 32-bit integers.           *)
(***************************************************************************)
EXTENDS Integers, Sequences, FiniteSets, TLC

----------------------------------------------------------------------------
(* Bounds of the model *)

\* children spawned in one session
MaxChildren == 2
\* length of the break_points vector handed to Inferior::new / continue_run
MaxBps == 2
\* frames on the stopped child's stack
MaxFrames == 2

----------------------------------------------------------------------------
(* Program constants *)

\* size_of::<usize>() on x86-64
WordSize == 8
\* the trap opcode written by Inferior::new and continue_run
TrapOpcode == 204
\* the 0xff of the masks in write_byte
ByteMask == 255
\* the radix of usize::from_str_radix in parse_address
Radix == 16
\* the offset of the return address above the saved frame pointer
RetOffset == 8

None == -1

----------------------------------------------------------------------------
(* 64-bit arithmetic on byte tuples *)

Bytes == 0..255
ByteIdx == 1..WordSize

RECURSIVE Pow2(_)
Pow2(n) == IF n = 0 THEN 1 ELSE 2 * Pow2(n - 1)

RECURSIVE BitAnd(_, _)
BitAnd(a, b) ==
    IF a = 0 \/ b = 0 THEN 0
    ELSE (a % 2) * (b % 2) + 2 * BitAnd(a \div 2, b \div 2)

RECURSIVE BitOr(_, _)
BitOr(a, b) ==
    IF a = 0 THEN b
    ELSE IF b = 0 THEN a
    ELSE (IF a % 2 = 1 \/ b % 2 = 1 THEN 1 ELSE 0) + 2 * BitOr(a \div 2, b \div 2)

\* `x as u64` for a byte x
U64(x) == [i \in ByteIdx |-> IF i = 1 THEN x ELSE 0]

\* w << n on u64 (bits shifted past bit 63 are dropped)
Shl(w, n) ==
    LET q == n \div 8
        r == n % 8
        B(i) == IF i >= 1 /\ i <= WordSize THEN w[i] ELSE 0
    IN  [i \in ByteIdx |-> ((B(i - q) * Pow2(r)) % 256) + (B(i - q - 1) \div Pow2(8 - r))]

\* w >> n on u64
Shr(w, n) ==
    LET q == n \div 8
        r == n % 8
        B(i) == IF i >= 1 /\ i <= WordSize THEN w[i] ELSE 0
    IN  [i \in ByteIdx |-> (B(i + q) \div Pow2(r)) + ((B(i + q + 1) * Pow2(8 - r)) % 256)]

WordAnd(a, b) == [i \in ByteIdx |-> BitAnd(a[i], b[i])]
WordOr(a, b) == [i \in ByteIdx |-> BitOr(a[i], b[i])]
WordNot(a) == [i \in ByteIdx |-> 255 - a[i]]

----------------------------------------------------------------------------
(* inferior.rs: align_addr_to_word and write_byte *)

\* addr & (-(size_of::<usize>() as isize) as usize): the mask ...fff8 clears
\* the three low bits of addr and keeps every other bit
align_addr_to_word(addr) == (addr \div WordSize) * WordSize

\* ptrace::read / ptrace::write work on the words the child has mapped, and
\* only while the child is in a ptrace-stop; m is the child's memory as a
\* function from mapped word addresses to words, and <<>> stands for Err
ptrace_read(m, ok, a) == IF ok /\ a \in DOMAIN m THEN m[a] ELSE <<>>

byte_offset_of(addr) == addr - align_addr_to_word(addr)

orig_byte_of(word, byte_offset) == WordAnd(Shr(word, 8 * byte_offset), U64(ByteMask))

masked_word_dropped(word, byte_offset) ==
    WordAnd(word, Shl(U64(ByteMask), 8 * byte_offset))

masked_word_of(word, byte_offset) ==
    WordAnd(word, WordNot(Shl(U64(ByteMask), 8 * byte_offset)))

updated_word_of(word, byte_offset, val) ==
    WordOr(masked_word_of(word, byte_offset), Shl(U64(val), 8 * byte_offset))

\* write_byte(addr, val) on memory m of a child that is (ok) or is not in a
\* ptrace-stop: the result Ok(orig_byte) / Err and the memory afterwards
write_byte(m, ok, addr, val) ==
    LET aligned_addr == align_addr_to_word(addr)
        byte_offset == byte_offset_of(addr)
        word == ptrace_read(m, ok, aligned_addr)
    IN  IF word = <<>>
        THEN [ret |-> None, mem |-> m]
        ELSE [ret |-> orig_byte_of(word, byte_offset)[1],
              mem |-> [m EXCEPT ![aligned_addr] = updated_word_of(word, byte_offset, val)]]

----------------------------------------------------------------------------
(* debugger.rs: parse_address.  A string is a sequence of one-character     *)
(* strings.                                                                *)

Lowers == <<"0", "1", "2", "3", "4", "5", "6", "7", "8", "9", "a", "b", "c", "d", "e", "f">>
Uppers == <<"0", "1", "2", "3", "4", "5", "6", "7", "8", "9", "A", "B", "C", "D", "E", "F">>

\* char::to_digit(16): the digit's value, or None
to_digit(c) ==
    IF \E i \in 1..Radix : Lowers[i] = c \/ Uppers[i] = c
    THEN (CHOOSE i \in 1..Radix : Lowers[i] = c \/ Uppers[i] = c) - 1
    ELSE None

\* str::to_lowercase on the ASCII letters the inputs use
to_lowercase_char(c) ==
    IF c = "X" THEN "x"
    ELSE IF \E i \in 1..Radix : Uppers[i] = c
         THEN Lowers[CHOOSE i \in 1..Radix : Uppers[i] = c]
         ELSE c

to_lowercase(s) == [i \in 1..Len(s) |-> to_lowercase_char(s[i])]

starts_with_0x(s) == Len(s) >= 2 /\ s[1] = "0" /\ s[2] = "x"

RECURSIVE digits_value(_, _)
\* the accumulation loop of from_str_radix: None as soon as a character is
\* no digit of the radix (the inputs are too short to overflow a usize)
digits_value(digits, acc) ==
    IF digits = <<>> THEN acc
    ELSE IF to_digit(Head(digits)) = None THEN None
         ELSE digits_value(Tail(digits), acc * Radix + to_digit(Head(digits)))

\* usize::from_str_radix(src, 16).ok(): an empty string and a lone sign are
\* errors, one leading "+" is skipped, "-" is no digit of an unsigned type
from_str_radix(src) ==
    IF src = <<>> THEN None
    ELSE IF Len(src) = 1 /\ Head(src) \in {"+", "-"} THEN None
    ELSE IF Head(src) = "+" THEN digits_value(Tail(src), 0)
    ELSE digits_value(src, 0)

parse_address(addr) ==
    LET addr_without_0x ==
            IF starts_with_0x(to_lowercase(addr)) THEN SubSeq(addr, 3, Len(addr)) ELSE addr
    IN  from_str_radix(addr_without_0x)

----------------------------------------------------------------------------
(* The traced program: its text, its debug information and its stack *)

\* the text the child maps at exec: two words of code, nothing above them
Image ==
    [a \in {0, WordSize} |->
        IF a = 0 THEN <<85, 72, 137, 229, 144, 195, 0, 255>>
                 ELSE <<243, 15, 30, 250, 49, 237, 73, 137>>]

\* the byte the text holds at addr
image_byte(addr) == Image[align_addr_to_word(addr)][byte_offset_of(addr) + 1]

\* DwarfData::get_function_from_addr: Some(name) as <<name>>, None as <<>>
get_function_from_addr(addr) ==
    IF addr \in 0..(WordSize - 1) THEN <<"foo">>
    ELSE IF addr \in WordSize..(2 * WordSize - 1) THEN <<"main">>
    ELSE <<>>

\* DwarfData::get_line_from_addr: a line is known exactly where a function is
get_line_from_addr(addr) ==
    IF get_function_from_addr(addr) = <<>> THEN <<>> ELSE <<addr>>

\* instruction pointers a stopped child can be at: in foo, in main, and in
\* code without debug information
RipSamples == {2, 9, 33}

\* a stack is the sequence of its frames' instruction pointers, innermost
\* first
RECURSIVE SeqsUpTo(_, _)
SeqsUpTo(S, n) ==
    IF n = 0 THEN {<<>>}
    ELSE LET shorter == SeqsUpTo(S, n - 1)
         IN  shorter \cup {Append(s, x) : s \in {t \in shorter : Len(t) = n - 1}, x \in S}

Chains == SeqsUpTo(RipSamples, MaxFrames) \ {<<>>}

StackBase == 64
\* frame i keeps the caller's frame pointer at frame_ptr(i) and the return
\* address RetOffset above it
frame_ptr(i) == StackBase + 2 * WordSize * (i - 1)

RECURSIVE addr_to_word(_, _)
addr_to_word(n, k) == IF k = 0 THEN <<>> ELSE <<n % 256>> \o addr_to_word(n \div 256, k - 1)

RECURSIVE word_to_addr(_, _)
\* `word as usize`
word_to_addr(w, k) == IF k > WordSize THEN 0 ELSE w[k] + 256 * word_to_addr(w, k + 1)

\* the stack memory of a child stopped with frames `chain`: every frame but
\* the outermost has a caller; nothing is mapped past the outermost one
stack_mem(chain) ==
    [a \in UNION {{frame_ptr(i), frame_ptr(i) + RetOffset} : i \in 1..(Len(chain) - 1)} |->
        LET i == CHOOSE j \in 1..(Len(chain) - 1) : a \in {frame_ptr(j), frame_ptr(j) + RetOffset}
        IN  IF a = frame_ptr(i) THEN addr_to_word(frame_ptr(i + 1), WordSize)
                                ELSE addr_to_word(chain[i + 1], WordSize)]

----------------------------------------------------------------------------
(* inferior.rs: print_backtrace *)

RECURSIVE backtrace_loop(_, _, _, _)
\* the loop of print_backtrace: the lines printed and how the loop ended
\* ("ok": reached main, "err": a ptrace::read failed, "panic": an expect
\* on an unresolved address)
backtrace_loop(m, instruction_ptr, base_ptr, printed) ==
    LET function_name == get_function_from_addr(instruction_ptr)
        path_name == get_line_from_addr(instruction_ptr)
        ret_word == ptrace_read(m, TRUE, base_ptr + RetOffset)
        fp_word == ptrace_read(m, TRUE, base_ptr)
    IN  IF function_name = <<>> \/ path_name = <<>>
        THEN [lines |-> printed, end |-> "panic"]
        ELSE IF function_name[1] = "main"
        THEN [lines |-> Append(printed, function_name[1]), end |-> "ok"]
        ELSE IF ret_word = <<>> \/ fp_word = <<>>
        THEN [lines |-> Append(printed, function_name[1]), end |-> "err"]
        ELSE backtrace_loop(m, word_to_addr(ret_word, 1), word_to_addr(fp_word, 1),
                            Append(printed, function_name[1]))

\* a walk that gathers the frames first and prints them only when no read
\* has failed
print_backtrace_gathered(stopped, chain) ==
    IF ~stopped \/ chain = <<>>
    THEN [lines |-> <<>>, end |-> "ok"]
    ELSE LET bt == backtrace_loop(stack_mem(chain), chain[1], frame_ptr(1), <<>>)
         IN  IF bt.end = "err" THEN [lines |-> <<>>, end |-> "err"] ELSE bt

\* print_backtrace on a child whose registers can (stopped) or cannot be
\* read: getregs failing skips the loop and returns Ok(())
print_backtrace(stopped, chain) ==
    IF ~stopped \/ chain = <<>>
    THEN [lines |-> <<>>, end |-> "ok"]
    ELSE backtrace_loop(stack_mem(chain), chain[1], frame_ptr(1), <<>>)

----------------------------------------------------------------------------
(* State *)

VARIABLES
    pc,            \* where Debugger::run is: "prompt", "returned", "panicked"
    inferior,      \* Debugger.inferior: None, or the pid of the held child
    breakpoints,   \* Debugger.breakpoints, the vector handed to Inferior
    proc,          \* the OS's view of each pid: "unborn", "live" (traced, in
                   \* a ptrace-stop between commands), "zombie", "reaped"
    spawned,       \* children spawned so far; the next pid is spawned + 1
    mem,           \* the text of the child spawned last
    orig_bytes,    \* by address, the Ok(orig_byte) write_byte returned last
                   \* for the child spawned last (None: no write succeeded)
    chain,         \* the stack of the held child while it is stopped
    cmd,           \* the input get_next_command handled last
    out,           \* the lines that command printed
    parsed,        \* the local `addr` of the Break arm after parse_address
    requested,     \* the addresses break commands have asked for so far
    traced,        \* trace requests (ptrace::cont) the last command issued
    sys,           \* the requests the last command made to the OS, in order:
                   \* "kill", "spawn", "write" (a write_byte), "wait", "cont"
    wb,            \* a direct call of write_byte: its arguments, then its result
    lcs,           \* a call of rdiff's lcs: its arguments, loop indices, grid
    pm             \* a call of parallel_map: main, the workers, the channels

vars ==
    <<pc, inferior, breakpoints, proc, spawned, mem, orig_bytes, chain, cmd, out, parsed,
      requested, traced, sys, wb, lcs, pm>>

Pids == 1..MaxChildren

\* addresses a break_points vector can hold: one inside a mapped word, off
\* its boundary, and one in no mapped word
BpAddrs == {10, 17}

\* the arguments of break commands, as the command source hands them over
BreakArgs ==
    { <<"*", "0", "x", "1", "0", "4", "0">>,
      <<"*", "1", "0", "4", "0">>,
      <<"1", "0", "4", "0">>,
      <<"*", "z", "z">>,
      <<"*", "0", "X", "A">>,
      <<"*", "a">>,
      <<"*", "+", "a">>,
      <<"*", "-", "a">>,
      <<"*", "0", "x">>,
      <<"*">> }

NoBytes == [a \in BpAddrs |-> None]

Init ==
    /\ pc = "prompt"
    /\ inferior = None
    /\ breakpoints = <<>>
    /\ proc = [p \in Pids |-> "unborn"]
    /\ spawned = 0
    /\ mem = Image
    /\ orig_bytes = NoBytes
    /\ chain = <<>>
    /\ cmd = [op |-> "none", arg |-> <<>>]
    /\ out = <<>>
    /\ parsed = None
    /\ requested = {}
    /\ traced = 0
    /\ sys = <<>>
    /\ wb = [stage |-> "none"]
    /\ lcs = [stage |-> "none"]
    /\ pm = [stage |-> "none"]

----------------------------------------------------------------------------
(* inferior.rs: kill, the breakpoint loops, wait, continue_run *)

\* Inferior::kill on pid p: Child::kill sends SIGKILL and waits for nothing,
\* so a live child becomes a zombie; the pid of a reaped child is gone and
\* the error is printed
kill(pr, p) ==
    [proc |-> IF pr[p] = "live" THEN [pr EXCEPT ![p] = "zombie"] ELSE pr,
     out |-> IF pr[p] = "reaped"
             THEN <<"Killing running inferior", "kill process error">>
             ELSE <<"Killing running inferior">>]

RECURSIVE install_loop_first_error_returns(_, _, _, _, _)
\* a loop that gives up at the first write that fails
install_loop_first_error_returns(m, sv, bps, unready, lines) ==
    IF bps = <<>>
    THEN [mem |-> m, orig_bytes |-> sv, out |-> lines]
    ELSE LET w == write_byte(m, unready = 0, Head(bps), TrapOpcode)
             left == IF unready = 0 THEN 0 ELSE unready - 1
         IN  IF w.ret = None
             THEN [mem |-> m, orig_bytes |-> sv,
                   out |-> Append(lines, "Error setting breakpoint")]
             ELSE install_loop_first_error_returns(w.mem, [sv EXCEPT ![Head(bps)] = w.ret],
                                                   Tail(bps), left, lines)

RECURSIVE install_loop(_, _, _, _, _)
\* the for loop over break_points of Inferior::new and continue_run: one
\* write_byte of the trap opcode per element, in order; the first `unready`
\* writes meet a child that is in no ptrace-stop; an Err is printed and the
\* loop goes on; the Ok value is dropped by the code and kept here in sv
install_loop(m, sv, bps, unready, lines) ==
    IF bps = <<>>
    THEN [mem |-> m, orig_bytes |-> sv, out |-> lines]
    ELSE LET w == write_byte(m, unready = 0, Head(bps), TrapOpcode)
             left == IF unready = 0 THEN 0 ELSE unready - 1
         IN  IF w.ret = None
             THEN install_loop(m, sv, Tail(bps), left, Append(lines, "Error setting breakpoint"))
             ELSE install_loop(w.mem, [sv EXCEPT ![Head(bps)] = w.ret], Tail(bps), left, lines)

\* continue_run on pid p, whose breakpoint loop has left inst: clear,
\* ptrace::cont, wait.  ptrace::cont fails on a child that is no longer
\* traceable (zombie or reaped) and the ? returns the error before any wait
continue_run(pr, p, inst, ev) ==
    [mem |-> inst.mem,
     orig_bytes |-> inst.orig_bytes,
     out |-> inst.out,
     res |-> IF pr[p] = "live" THEN ev ELSE "Err",
     proc |-> IF pr[p] = "live" /\ ev \in {"Exited", "Signaled"}
              THEN [pr EXCEPT ![p] = "reaped"] ELSE pr]

\* the breakpoint loop of continue_run on pid p: a held child that is live
\* is in a ptrace-stop, any other takes no write
continue_install(pr, p, m, sv, bps) ==
    install_loop(m, sv, bps, IF pr[p] = "live" THEN 0 ELSE Len(bps), <<>>)

----------------------------------------------------------------------------
(* debugger.rs: the arms of Debugger::run *)

\* the lines the Run arm prints for a status, and whether an expect panics;
\* the instruction pointer of a stop is that of the innermost frame
run_report(res, stack) ==
    IF res = "Exited" THEN [out |-> <<"Child exited">>, panic |-> FALSE]
    ELSE IF res = "Signaled" THEN [out |-> <<"Child signaled">>, panic |-> FALSE]
    ELSE IF res = "Err" THEN [out |-> <<"ptrace error">>, panic |-> FALSE]
    ELSE IF get_function_from_addr(stack[1]) = <<>> \/ get_line_from_addr(stack[1]) = <<>>
         THEN [out |-> <<"Child stopped">>, panic |-> TRUE]
         ELSE [out |-> <<"Child stopped", "Stopped at">>, panic |-> FALSE]

\* what a resumed child does next: it exits, it is killed by a signal, or it
\* stops (at a trap) with some stack
Outcomes ==
    {[ev |-> e, chain |-> <<>>] : e \in {"Exited", "Signaled"}}
        \cup {[ev |-> "Stopped", chain |-> c] : c \in Chains}

\* how Inferior::new can end: spawn fails, the initial wait fails, or both
\* succeed
Starts == {"spawn_err", "wait_err", "ok"}

\* DebuggerCommand::Run: kill the held child, Inferior::new (spawn, the
\* breakpoint loop, clear, the initial wait), then continue_run and the
\* report.  start is how the OS lets Inferior::new end, unready the number
\* of writes that come before the child has stopped at its exec trap, and
\* the resumed child does one of the things in outcomes.
Run(start, outcomes) ==
    /\ pc = "prompt"
    /\ spawned < MaxChildren
    /\ LET k == IF inferior # None
                THEN kill(proc, inferior)
                ELSE [proc |-> proc, out |-> <<>>]
           pid == spawned + 1
           born == [k.proc EXCEPT ![pid] = "live"]
           killed == IF inferior # None THEN <<"kill">> ELSE <<>>
           writes == [i \in 1..Len(breakpoints) |-> "write"]
       IN  /\ cmd' = [op |-> "Run", arg |-> <<>>]
           /\ UNCHANGED <<wb, lcs, pm>>
           /\ parsed' = None
           /\ requested' = requested
           /\ IF start = "spawn_err"
              THEN /\ proc' = k.proc
                   /\ out' = k.out \o <<"Error starting subprocess">>
                   /\ traced' = 0
                   /\ sys' = killed \o <<"spawn">>
                   /\ chain' = <<>>
                   /\ UNCHANGED <<pc, inferior, breakpoints, spawned, mem, orig_bytes>>
              ELSE \E unready \in 0..Len(breakpoints) :
                   \E inst \in {install_loop(Image, NoBytes, breakpoints, unready, <<>>)} :
                       IF start = "wait_err"
                       THEN /\ proc' = born
                            /\ spawned' = pid
                            /\ mem' = inst.mem
                            /\ orig_bytes' = inst.orig_bytes
                            /\ breakpoints' = <<>>
                            /\ out' = k.out \o inst.out \o <<"Error starting subprocess">>
                            /\ traced' = 0
                            /\ sys' = killed \o <<"spawn">> \o writes \o <<"wait">>
                            /\ chain' = <<>>
                            /\ UNCHANGED <<pc, inferior>>
                       ELSE \E o \in outcomes :
                            LET cr == continue_run(born, pid,
                                              continue_install(born, pid, inst.mem,
                                                               inst.orig_bytes, <<>>),
                                              o.ev)
                                rep == run_report(cr.res, o.chain)
                            IN  /\ proc' = cr.proc
                                /\ spawned' = pid
                                /\ inferior' = pid
                                /\ mem' = cr.mem
                                /\ orig_bytes' = cr.orig_bytes
                                /\ breakpoints' = <<>>
                                /\ out' = k.out \o inst.out \o rep.out
                                /\ traced' = 1
                                /\ sys' = killed \o <<"spawn">> \o writes
                                              \o <<"wait", "cont", "wait">>
                                /\ chain' = o.chain
                                /\ pc' = IF rep.panic THEN "panicked" ELSE "prompt"

\* DebuggerCommand::Quit (and end of input, which get_next_command turns
\* into Quit): kill the held child and return
Quit ==
    /\ pc = "prompt"
    /\ LET k == IF inferior # None
                THEN kill(proc, inferior)
                ELSE [proc |-> proc, out |-> <<>>]
       IN  /\ proc' = k.proc
           /\ out' = k.out
    /\ pc' = "returned"
    /\ cmd' = [op |-> "Quit", arg |-> <<>>]
    /\ parsed' = None
    /\ traced' = 0
    /\ sys' = IF inferior # None THEN <<"kill">> ELSE <<>>
    /\ UNCHANGED <<inferior, breakpoints, spawned, mem, orig_bytes, chain, requested, wb,
                   lcs, pm>>

\* DebuggerCommand::Continue: continue_run on the held child (only Exited
\* is printed), "No process running." when none is held
Continue(outcomes) ==
    /\ pc = "prompt"
    /\ cmd' = [op |-> "Continue", arg |-> <<>>]
    /\ parsed' = None
    /\ IF inferior = None
       THEN /\ out' = <<"No process running.">>
            /\ traced' = 0
            /\ sys' = <<>>
            /\ UNCHANGED <<inferior, breakpoints, proc, mem, orig_bytes, chain>>
       ELSE \E inst \in {continue_install(proc, inferior, mem, orig_bytes, breakpoints)} :
            \E o \in outcomes :
            LET cr == continue_run(proc, inferior, inst, o.ev)
            IN  /\ proc' = cr.proc
                /\ mem' = cr.mem
                /\ orig_bytes' = cr.orig_bytes
                /\ breakpoints' = <<>>
                /\ out' = cr.out \o (IF cr.res = "Exited" THEN <<"Continue: Child exited">>
                                     ELSE IF cr.res = "Err" THEN <<"ptrace error">>
                                     ELSE <<>>)
                /\ traced' = 1
                /\ sys' = [i \in 1..Len(breakpoints) |-> "write"] \o <<"cont">>
                              \o (IF cr.res = "Err" THEN <<>> ELSE <<"wait">>)
                /\ chain' = IF cr.res = "Stopped" THEN o.chain ELSE <<>>
                /\ UNCHANGED inferior
    /\ UNCHANGED <<pc, spawned, requested, wb, lcs, pm>>

\* DebuggerCommand::Backtrace: print_backtrace on the held child, its
\* result dropped by .ok(); nothing when no child is held
Backtrace ==
    /\ pc = "prompt"
    /\ cmd' = [op |-> "Backtrace", arg |-> <<>>]
    /\ parsed' = None
    /\ traced' = 0
    /\ LET bt == IF inferior = None
                 THEN [lines |-> <<>>, end |-> "ok"]
                 ELSE print_backtrace(proc[inferior] = "live", chain)
       IN  /\ out' = bt.lines
           /\ pc' = IF bt.end = "panic" THEN "panicked" ELSE "prompt"
    /\ sys' = <<>>
    /\ UNCHANGED <<inferior, breakpoints, proc, spawned, mem, orig_bytes, chain, requested,
                   wb, lcs, pm>>

\* DebuggerCommand::Break(addr): "wrong address format" unless addr starts
\* with "*"; otherwise parse_address on the rest, whose result is bound to a
\* local and used no further
Break(addr) ==
    /\ pc = "prompt"
    /\ cmd' = [op |-> "Break", arg |-> addr]
    /\ traced' = 0
    /\ IF addr[1] # "*"
       THEN /\ out' = <<"wrong address format">>
            /\ parsed' = None
       ELSE /\ out' = <<>>
            /\ parsed' = parse_address(Tail(addr))
    /\ requested' = IF parsed' # None THEN requested \cup {parsed'} ELSE requested
    /\ sys' = <<>>
    /\ UNCHANGED <<pc, inferior, breakpoints, proc, spawned, mem, orig_bytes, chain, wb, lcs,
                   pm>>

\* an interrupt that is taken for a quit
InterruptQuits ==
    /\ pc = "prompt"
    /\ proc' = IF inferior # None THEN kill(proc, inferior).proc ELSE proc
    /\ pc' = "returned"
    /\ cmd' = [op |-> "Interrupt", arg |-> <<>>]
    /\ out' = <<"Type \"quit\" to exit">>
    /\ parsed' = None
    /\ traced' = 0
    /\ sys' = <<>>
    /\ UNCHANGED <<inferior, breakpoints, spawned, mem, orig_bytes, chain, requested, wb,
                   lcs, pm>>

\* get_next_command on ReadlineError::Interrupted (ctrl-c at the prompt):
\* it prints the hint and reads the next line; no command reaches run
Interrupt ==
    /\ pc = "prompt"
    /\ cmd' = [op |-> "Interrupt", arg |-> <<>>]
    /\ out' = <<"Type \"quit\" to exit">>
    /\ parsed' = None
    /\ traced' = 0
    /\ sys' = <<>>
    /\ UNCHANGED <<pc, inferior, breakpoints, proc, spawned, mem, orig_bytes, chain,
                   requested, wb, lcs, pm>>

\* get_next_command on ReadlineError::Eof (ctrl-d): it returns
\* DebuggerCommand::Quit, and run takes the Quit arm
Eof ==
    /\ pc = "prompt"
    /\ LET k == IF inferior # None
                THEN kill(proc, inferior)
                ELSE [proc |-> proc, out |-> <<>>]
       IN  /\ proc' = k.proc
           /\ out' = k.out
    /\ pc' = "returned"
    /\ cmd' = [op |-> "Quit", arg |-> <<"eof">>]
    /\ parsed' = None
    /\ traced' = 0
    /\ sys' = IF inferior # None THEN <<"kill">> ELSE <<>>
    /\ UNCHANGED <<inferior, breakpoints, spawned, mem, orig_bytes, chain, requested, wb,
                   lcs, pm>>

Next ==
    \/ \E start \in Starts : Run(start, Outcomes)
    \/ Quit
    \/ Continue(Outcomes)
    \/ Backtrace
    \/ \E addr \in BreakArgs : Break(addr)
    \/ Interrupt
    \/ Eof

Spec == Init /\ [][Next]_vars

----------------------------------------------------------------------------
(* inferior.rs driven by any caller: Inferior::new and continue_run take    *)
(* the break_points vector by reference, whatever the caller has put on it *)

\* the caller puts one more address on the vector it will pass
Push(a) ==
    /\ pc = "prompt"
    /\ Len(breakpoints) < MaxBps
    /\ breakpoints' = Append(breakpoints, a)
    /\ UNCHANGED <<pc, inferior, proc, spawned, mem, orig_bytes, chain, cmd, out, parsed,
                   requested, traced, sys, wb, lcs, pm>>

\* the stacks of this specification are one frame deep
ShallowOutcomes == {o \in Outcomes : Len(o.chain) <= 1}

NextInferior ==
    \/ \E a \in BpAddrs : Push(a)
    \/ \E start \in Starts : Run(start, ShallowOutcomes)
    \/ Quit
    \/ Continue(ShallowOutcomes)
    \/ Backtrace

SpecInferior == Init /\ [][NextInferior]_vars

----------------------------------------------------------------------------
(* write_byte on its own: any address, any value, any content of the word  *)

\* the highest address patched: three words, the third of them unmapped
MaxAddr == 23

\* the values written
TestVals == {0, 90, TrapOpcode, 255}

\* the contents of the containing word: each byte is the byte one of the two
\* words of the text has at that place, or 0xcc at the place to be patched
TestWords(off) ==
    UNION {{[i \in ByteIdx |-> IF i \in pick THEN Image[0][i] ELSE Image[WordSize][i]],
            [i \in ByteIdx |-> IF i = off + 1 THEN TrapOpcode
                               ELSE IF i \in pick THEN Image[0][i] ELSE Image[WordSize][i]]} :
           pick \in SUBSET ByteIdx}

InitWriteByte ==
    /\ pc = "prompt"
    /\ inferior = None
    /\ breakpoints = <<>>
    /\ proc = [p \in Pids |-> "unborn"]
    /\ spawned = 0
    /\ mem = Image
    /\ orig_bytes = NoBytes
    /\ chain = <<>>
    /\ cmd = [op |-> "none", arg |-> <<>>]
    /\ out = <<>>
    /\ parsed = None
    /\ requested = {}
    /\ traced = 0
    /\ sys = <<>>
    /\ lcs = [stage |-> "none"]
    /\ pm = [stage |-> "none"]
    /\ \E addr \in 0..MaxAddr, val \in TestVals :
       \E w \in TestWords(byte_offset_of(addr)) :
          wb = [stage |-> "args",
                m |-> IF align_addr_to_word(addr) \in DOMAIN Image
                      THEN [Image EXCEPT ![align_addr_to_word(addr)] = w]
                      ELSE Image,
                addr |-> addr,
                val |-> val]

\* the call: the child is stopped, as it is between two commands
CallWriteByte ==
    /\ wb.stage = "args"
    /\ LET r == write_byte(wb.m, TRUE, wb.addr, wb.val)
       IN  wb' = [stage |-> "done", m |-> wb.m, addr |-> wb.addr, val |-> wb.val,
                  ret |-> r.ret, after |-> r.mem]
    /\ UNCHANGED <<pc, inferior, breakpoints, proc, spawned, mem, orig_bytes, chain, cmd, out,
                   parsed, requested, traced, sys, lcs, pm>>

SpecWriteByte == InitWriteByte /\ [][CallWriteByte]_vars

----------------------------------------------------------------------------
(* rdiff: lcs, the table of longest-common-subsequence lengths *)

\* the longest line sequence lcs is called on
MaxSeqLen == 3

\* the lines of the two files
Lines == {"a", "b", "c"}

\* the debugger before its first command, for the specifications of the
\* other programs
DebuggerIdle ==
    /\ pc = "prompt"
    /\ inferior = None
    /\ breakpoints = <<>>
    /\ proc = [p \in Pids |-> "unborn"]
    /\ spawned = 0
    /\ mem = Image
    /\ orig_bytes = NoBytes
    /\ chain = <<>>
    /\ cmd = [op |-> "none", arg |-> <<>>]
    /\ out = <<>>
    /\ parsed = None
    /\ requested = {}
    /\ traced = 0
    /\ sys = <<>>

debugger_vars ==
    <<pc, inferior, breakpoints, proc, spawned, mem, orig_bytes, chain, cmd, out, parsed,
      requested, traced, sys>>

\* Grid::new(num_rows, num_cols): every cell 0
grid_new(num_rows, num_cols) ==
    [num_rows |-> num_rows,
     num_cols |-> num_cols,
     elems |-> [cell \in (0..(num_rows - 1)) \X (0..(num_cols - 1)) |-> 0]]

\* Grid::size
grid_size(g) == <<g.num_rows, g.num_cols>>

\* Grid::get(row, col): None outside the grid
grid_get(g, row, col) ==
    IF <<row, col>> \in DOMAIN g.elems THEN g.elems[<<row, col>>] ELSE None

\* Grid::set(row, col, val): Ok and the cell written, Err outside the grid
grid_set(g, row, col, val) ==
    IF <<row, col>> \in DOMAIN g.elems
    THEN [ok |-> TRUE, grid |-> [g EXCEPT !.elems[<<row, col>>] = val]]
    ELSE [ok |-> FALSE, grid |-> g]

max(a, b) == IF a >= b THEN a ELSE b

\* a body that adds one to the larger neighbour on a match
lcs_body_max_plus_one(dp, seq1, seq2, i, j) ==
    LET left == grid_get(dp, i + 1, j)
        up == grid_get(dp, i, j + 1)
    IN  IF left = None \/ up = None THEN [ok |-> FALSE, grid |-> dp]
        ELSE grid_set(dp, i + 1, j + 1,
                      IF seq1[i + 1] = seq2[j + 1] THEN max(left, up) + 1 ELSE max(left, up))

\* the body of the inner loop of lcs at (i, j), indices from 0 as in the
\* source: the grid after dp.set, and whether every unwrap found a value
lcs_body(dp, seq1, seq2, i, j) ==
    IF seq1[i + 1] = seq2[j + 1]
    THEN LET diag == grid_get(dp, i, j)
         IN  IF diag = None THEN [ok |-> FALSE, grid |-> dp]
             ELSE grid_set(dp, i + 1, j + 1, diag + 1)
    ELSE LET left == grid_get(dp, i + 1, j)
             up == grid_get(dp, i, j + 1)
         IN  IF left = None \/ up = None THEN [ok |-> FALSE, grid |-> dp]
             ELSE grid_set(dp, i + 1, j + 1, max(left, up))

\* the input of test_lcs
TestSeq1 == <<"a", "b", "c", "d">>

TestSeq2 == <<"a", "d", "b">>

LineSeqs == UNION {[1..n -> Lines] : n \in 0..MaxSeqLen}

InitLcs ==
    /\ DebuggerIdle
    /\ wb = [stage |-> "none"]
    /\ pm = [stage |-> "none"]
    /\ \E pair \in (LineSeqs \X LineSeqs) \cup {<<TestSeq1, TestSeq2>>} :
          lcs = [stage |-> "args", seq1 |-> pair[1], seq2 |-> pair[2]]

\* the call up to the loops: the lengths and Grid::new
LcsEnter ==
    /\ lcs.stage = "args"
    /\ LET len1 == Len(lcs.seq1)
           len2 == Len(lcs.seq2)
       IN  lcs' = [stage |-> IF len1 = 0 \/ len2 = 0 THEN "done" ELSE "loop",
                   seq1 |-> lcs.seq1, seq2 |-> lcs.seq2, i |-> 0, j |-> 0,
                   dp |-> grid_new(len1 + 1, len2 + 1)]
    /\ UNCHANGED <<debugger_vars, wb, pm>>

\* one pass of the inner loop, then the next (i, j) of `for i in 0..len1`,
\* `for j in 0..len2`, or the return of dp
LcsIter ==
    /\ lcs.stage = "loop"
    /\ LET len1 == Len(lcs.seq1)
           len2 == Len(lcs.seq2)
           after == lcs_body(lcs.dp, lcs.seq1, lcs.seq2, lcs.i, lcs.j)
       IN  lcs' = IF ~after.ok THEN [lcs EXCEPT !.stage = "panicked"]
                  ELSE IF lcs.j + 1 < len2
                  THEN [lcs EXCEPT !.dp = after.grid, !.j = lcs.j + 1]
                  ELSE IF lcs.i + 1 < len1
                  THEN [lcs EXCEPT !.dp = after.grid, !.i = lcs.i + 1, !.j = 0]
                  ELSE [lcs EXCEPT !.dp = after.grid, !.stage = "done"]
    /\ UNCHANGED <<debugger_vars, wb, pm>>

NextLcs == LcsEnter \/ LcsIter

SpecLcs == InitLcs /\ [][NextLcs]_vars

----------------------------------------------------------------------------
(* parallel_map: main feeds a channel, num_threads workers map, main collects *)

\* the longest input vector and the largest num_threads
MaxVecLen == 3

MaxThreads == 2

\* the elements of the input vector
PmVals == {2, 3}

\* the closure main passes: num * num
f(num) == num * num

\* U::default() for the integers of main
Default == 0

Workers == 1..MaxThreads

InitPmap ==
    /\ DebuggerIdle
    /\ wb = [stage |-> "none"]
    /\ lcs = [stage |-> "none"]
    /\ \E n \in 0..MaxVecLen, num_threads \in 0..MaxThreads :
       \E input_vec \in [1..n -> PmVals] :
          pm = [stage |-> "args", arg |-> input_vec, num_threads |-> num_threads]

\* the call up to the first loop: output_vec filled with defaults, the two
\* unbounded channels, no handle yet
PmEnter ==
    /\ pm.stage = "args"
    /\ pm' = [stage |-> "feed",
              arg |-> pm.arg,
              num_threads |-> pm.num_threads,
              input_vec |-> pm.arg,
              output_vec |-> [i \in 1..Len(pm.arg) |-> Default],
              in_chan |-> <<>>,
              in_senders |-> 1,
              out_chan |-> <<>>,
              out_senders |-> 1,
              handles |-> 0,
              joined |-> 0,
              w |-> [t \in Workers |-> [pc |-> "unborn", item |-> <<>>]],
              by |-> [i \in 0..(Len(pm.arg) - 1) |-> <<>>],
              stored |-> [i \in 0..(Len(pm.arg) - 1) |-> 0]]
    /\ UNCHANGED <<debugger_vars, wb, lcs>>

\* a feed that sends the length before the pop
feed_item_before_pop(input_vec) == <<Len(input_vec), input_vec[Len(input_vec)]>>

\* what one pass of the first loop sends: input_vec.pop(), paired with
\* input_vec.len() after the pop, which is the index (from 0) the element had
feed_item(input_vec) == <<Len(input_vec) - 1, input_vec[Len(input_vec)]>>

\* one pass of `while let Some(input) = input_vec.pop()`
PmFeed ==
    /\ pm.stage = "feed"
    /\ pm.input_vec # <<>>
    /\ pm' = [pm EXCEPT !.input_vec = SubSeq(pm.input_vec, 1, Len(pm.input_vec) - 1),
                        !.in_chan = Append(pm.in_chan, feed_item(pm.input_vec))]
    /\ UNCHANGED <<debugger_vars, wb, lcs>>

\* pop returns None: the loop ends, drop(input_sender)
PmDropInputSender ==
    /\ pm.stage = "feed"
    /\ pm.input_vec = <<>>
    /\ pm' = [pm EXCEPT !.in_senders = 0, !.stage = "spawn"]
    /\ UNCHANGED <<debugger_vars, wb, lcs>>

\* one pass of `for _ in 0..num_threads`: the two clones and thread::spawn
PmSpawn ==
    /\ pm.stage = "spawn"
    /\ pm.handles < pm.num_threads
    /\ pm' = [pm EXCEPT !.handles = pm.handles + 1,
                        !.out_senders = pm.out_senders + 1,
                        !.w[pm.handles + 1].pc = "recv"]
    /\ UNCHANGED <<debugger_vars, wb, lcs>>

\* a main that goes on to the join loop with its output sender still alive
PmKeepOutputSender ==
    /\ pm.stage = "spawn"
    /\ pm.handles = pm.num_threads
    /\ pm' = [pm EXCEPT !.stage = IF pm.num_threads = 0 THEN "collect" ELSE "join"]
    /\ UNCHANGED <<debugger_vars, wb, lcs>>

\* the loop is over: drop(output_sender); the join loop comes next
PmDropOutputSender ==
    /\ pm.stage = "spawn"
    /\ pm.handles = pm.num_threads
    /\ pm' = [pm EXCEPT !.out_senders = pm.out_senders - 1,
                        !.stage = IF pm.num_threads = 0 THEN "collect" ELSE "join"]
    /\ UNCHANGED <<debugger_vars, wb, lcs>>

\* worker t at c_input_receiver.recv(): it takes the oldest message; on an
\* empty channel it blocks while a sender is left, and with none left recv
\* is Err, the loop ends, the worker drops its output sender and returns
WorkerRecv(t) ==
    /\ pm.stage \in {"spawn", "join"}
    /\ pm.w[t].pc = "recv"
    /\ IF pm.in_chan # <<>>
       THEN pm' = [pm EXCEPT !.in_chan = Tail(pm.in_chan),
                             !.w[t] = [pc |-> "work", item |-> Head(pm.in_chan)],
                             !.by[Head(pm.in_chan)[1]] = Append(@, t)]
       ELSE /\ pm.in_senders = 0
            /\ pm' = [pm EXCEPT !.w[t].pc = "exited",
                                !.out_senders = pm.out_senders - 1]
    /\ UNCHANGED <<debugger_vars, wb, lcs>>

\* worker t applies f to the input it holds and sends (counter, res)
WorkerSend(t) ==
    /\ pm.stage \in {"spawn", "join"}
    /\ pm.w[t].pc = "work"
    /\ pm' = [pm EXCEPT !.out_chan = Append(pm.out_chan,
                                            <<pm.w[t].item[1], f(pm.w[t].item[2])>>),
                        !.w[t] = [pc |-> "recv", item |-> <<>>]]
    /\ UNCHANGED <<debugger_vars, wb, lcs>>

\* handle.join() of the next handle returns once its thread has returned
PmJoin ==
    /\ pm.stage = "join"
    /\ pm.w[pm.joined + 1].pc = "exited"
    /\ pm' = [pm EXCEPT !.joined = pm.joined + 1,
                        !.stage = IF pm.joined + 1 = pm.num_threads THEN "collect"
                                  ELSE "join"]
    /\ UNCHANGED <<debugger_vars, wb, lcs>>

\* main at output_receiver.recv(): a message is stored at its index (an
\* index past the end panics); an empty channel with no sender left ends the
\* loop and output_vec is returned
PmCollect ==
    /\ pm.stage = "collect"
    /\ IF pm.out_chan # <<>>
       THEN LET index == Head(pm.out_chan)[1]
                output == Head(pm.out_chan)[2]
            IN  pm' = IF index >= Len(pm.output_vec)
                      THEN [pm EXCEPT !.stage = "panicked"]
                      ELSE [pm EXCEPT !.out_chan = Tail(pm.out_chan),
                                      !.output_vec[index + 1] = output,
                                      !.stored[index] = @ + 1]
       ELSE /\ pm.out_senders = 0
            /\ pm' = [pm EXCEPT !.stage = "done"]
    /\ UNCHANGED <<debugger_vars, wb, lcs>>

NextPmap ==
    \/ PmEnter
    \/ PmFeed
    \/ PmDropInputSender
    \/ PmSpawn
    \/ PmDropOutputSender
    \/ \E t \in Workers : WorkerRecv(t)
    \/ \E t \in Workers : WorkerSend(t)
    \/ PmJoin
    \/ PmCollect

SpecPmap == InitPmap /\ [][NextPmap]_vars

\* the steps of the thread that called parallel_map
PmMain ==
    \/ PmEnter
    \/ PmFeed
    \/ PmDropInputSender
    \/ PmSpawn
    \/ PmDropOutputSender
    \/ PmJoin
    \/ PmCollect

\* the steps of the thread spawned as worker t
Worker(t) == WorkerRecv(t) \/ WorkerSend(t)

\* the same program on a scheduler that lets no thread wait for ever while
\* it can take a step: main and every worker are OS threads, and f returns
SpecPmapFair ==
    /\ InitPmap
    /\ [][NextPmap]_vars
    /\ WF_vars(PmMain)
    /\ \A t \in Workers : WF_vars(Worker(t))

----------------------------------------------------------------------------
(* Properties *)

Live == {p \in Pids : proc[p] = "live"}

\* the byte memory m holds at a mapped address
byte_at(m, addr) == m[align_addr_to_word(addr)][byte_offset_of(addr) + 1]

IsMapped(addr) == align_addr_to_word(addr) \in DOMAIN Image

\* the last command was a run that left a freshly spawned child stopped
RunLeftChildStopped ==
    /\ cmd.op = "Run"
    /\ pc = "prompt"
    /\ inferior # None
    /\ proc[inferior] = "live"

\* C1: at most one traced child is live at any time, and once a run command
\* has replaced a child, every earlier child is terminated and reaped
\* (neither live nor a zombie).
C1_OneChildEarlierOnesReaped ==
    /\ Cardinality(Live) <= 1
    /\ cmd.op = "Run" => \A p \in Pids : p < spawned => proc[p] \notin {"live", "zombie"}

\* C2: after a run, every (mapped) address requested with break before it
\* holds the trap opcode in the child's memory, and the original byte of the
\* address is the one recorded for it.
C2_RequestedBreakpointsInstalled ==
    RunLeftChildStopped =>
        \A a \in requested \cap BpAddrs :
            IsMapped(a) => /\ byte_at(mem, a) = TrapOpcode
                           /\ orig_bytes[a] = image_byte(a)

\* C3: over the lifetime of one child an address is patched once: the
\* original byte recorded for it is never overwritten by a later patch,
\* whatever addresses later calls are given.
C3_SavedByteNeverOverwritten ==
    [][spawned' = spawned =>
          \A a \in BpAddrs : orig_bytes[a] # None => orig_bytes'[a] = orig_bytes[a]]_vars

\* the bytes of the containing word that differ before and after the call
WbChanged ==
    {i \in ByteIdx : wb.after[align_addr_to_word(wb.addr)][i]
                       # wb.m[align_addr_to_word(wb.addr)][i]}

WbDone == wb.stage = "done" /\ IsMapped(wb.addr)

\* what the call must have done to the containing word and returned
WbSpliced ==
    LET aligned == align_addr_to_word(wb.addr)
        off == wb.addr - aligned
    IN  /\ wb.ret = wb.m[aligned][off + 1]
        /\ wb.after[aligned][off + 1] = wb.val
        /\ \A i \in ByteIdx \ {off + 1} : wb.after[aligned][i] = wb.m[aligned][i]
        /\ \A a \in DOMAIN wb.m \ {aligned} : wb.after[a] = wb.m[a]
        /\ DOMAIN wb.after = DOMAIN wb.m

\* C4 as stated: after write_byte(addr, val) the byte at the offset is val,
\* the other seven are as before, the original byte is returned, and exactly
\* one byte of the word has changed.
C4_ExactlyOneByteChanged == WbDone => (WbSpliced /\ Cardinality(WbChanged) = 1)

\* C4 as amended: after write_byte(addr, val) the byte at the offset is val,
\* the other seven bytes and every other word are as before, the original
\* byte is returned, and at most one byte has changed: exactly one when val
\* differs from the original byte, none when it equals it.
C4_AtMostOneByteChanged ==
    WbDone =>
        /\ WbSpliced
        /\ Cardinality(WbChanged) <= 1
        /\ (Cardinality(WbChanged) = 1) <=> (wb.val # wb.ret)

\* a call on an unaligned address in the second word which changed a byte
C4_Witness ==
    /\ WbDone
    /\ wb.addr > WordSize
    /\ byte_offset_of(wb.addr) # 0
    /\ wb.val = TrapOpcode
    /\ wb.ret # wb.val
    /\ byte_at(wb.after, wb.addr) = TrapOpcode

\* C5: once quit has returned after at least one run, no child of the
\* session is live or a zombie.
C5_QuitLeavesNoChild ==
    (pc = "returned" /\ spawned >= 1) => \A p \in Pids : proc[p] \notin {"live", "zombie"}

\* C6: a continue issued while no process is live prints "No process
\* running.", issues no trace request and leaves the held process and the
\* breakpoints as they were.
C6_ContinueWithoutProcess ==
    [][(/\ pc = "prompt"
        /\ (inferior = None \/ proc[inferior] # "live")
        /\ cmd'.op = "Continue")
       => (/\ out' = <<"No process running.">>
           /\ traced' = 0
           /\ inferior' = inferior
           /\ breakpoints' = breakpoints)]_vars

\* C7: a child that has ended (its exit or its death by a signal was
\* reported by wait) is no longer held by the session.
C7_EndedChildNotHeld == inferior # None => proc[inferior] # "reaped"

\* C8: after a run whose spawn failed the session holds no inferior and no
\* spawned child is left running.
C8_SpawnFailureLeavesIdle ==
    (cmd.op = "Run" /\ out # <<>> /\ out[Len(out)] = "Error starting subprocess")
        => (inferior = None /\ Live = {})

\* the place of the entry function in the stack, 0 when it is not there
RECURSIVE first_main(_, _)
first_main(stack, i) ==
    IF i > Len(stack) THEN 0
    ELSE IF get_function_from_addr(stack[i]) = <<"main">> THEN i
    ELSE first_main(stack, i + 1)

\* C9: a backtrace of a stopped child whose frame-pointer chain reaches the
\* entry function prints the frames from the innermost one up to the entry
\* function, the entry function last, and the command completes.
C9_BacktraceEndsAtMain ==
    (/\ cmd.op = "Backtrace"
     /\ inferior # None
     /\ proc[inferior] = "live"
     /\ first_main(chain, 1) > 0)
        => LET n == first_main(chain, 1)
           IN  /\ pc = "prompt"
               /\ Len(out) = n
               /\ out[n] = "main"
               /\ \A j \in 1..n : out[j] \in {"foo", "main"}

HexChars == {Lowers[i] : i \in 1..Radix} \cup {Uppers[i] : i \in 1..Radix}

\* "*", an optional 0x or 0X, then one hex digit or more
WellFormedAddress(arg) ==
    /\ Len(arg) >= 2
    /\ arg[1] = "*"
    /\ LET rest == Tail(arg)
           digits == IF Len(rest) >= 2 /\ rest[1] = "0" /\ rest[2] \in {"x", "X"}
                     THEN SubSeq(rest, 3, Len(rest))
                     ELSE rest
       IN  /\ digits # <<>>
           /\ \A i \in 1..Len(digits) : digits[i] \in HexChars

\* C10: break accepts exactly the arguments of the form "*", optional 0x,
\* hex digits; the two spellings of an address parse to the same number; an
\* argument that is rejected is reported and changes no breakpoint.
C10_ParserAcceptsExactlyStarHex ==
    cmd.op = "Break" =>
        /\ (parsed # None) <=> WellFormedAddress(cmd.arg)
        /\ parsed = None => out # <<>>
        /\ breakpoints = <<>>

\* the frames of a stack none of whose addresses is unresolved
frames(stack) == [i \in 1..Len(stack) |-> get_function_from_addr(stack[i])[1]]

Unresolved(stack) == {i \in 1..Len(stack) : get_function_from_addr(stack[i]) = <<>>}

HeldLive == inferior # None /\ proc[inferior] = "live"

\* C11: an address the debug information cannot resolve never aborts the
\* debugger: after a run that stopped and after a backtrace of a stopped
\* child, whatever addresses its stack holds, the command has completed and
\* the session is at the prompt.
C11_UnresolvedAddressNeverAborts ==
    (cmd.op \in {"Run", "Backtrace"} /\ HeldLive /\ Unresolved(chain) # {})
        => pc = "prompt"

\* C13: a break command whose address is well formed leaves the parsed
\* address in the session's breakpoint set, where the next install point
\* finds it.
C13_BreakEnqueuesAddress ==
    (cmd.op = "Break" /\ parsed # None)
        => \E i \in 1..Len(breakpoints) : breakpoints[i] = parsed

\* C14: a freshly spawned child gets the breakpoints requested during an
\* earlier run as well: every address patched in the previous child holds
\* the trap opcode in the new child when run hands it over.
C14_BreakpointsSurviveRerun ==
    [][(spawned' = spawned + 1 /\ inferior' = spawned')
          => \A a \in BpAddrs : orig_bytes[a] # None => byte_at(mem', a) = TrapOpcode]_vars

\* C15: on run, no breakpoint byte is written and no continue is sent
\* before the initial wait on the new child has returned: every write and
\* every cont among the requests of a run comes after a wait.
C15_NoWriteBeforeInitialWait ==
    cmd.op = "Run" =>
        \A i \in 1..Len(sys) :
            sys[i] \in {"write", "cont"} => \E j \in 1..(i - 1) : sys[j] = "wait"

\* C16: continue on a stopped child resumes it exactly once and reports the
\* event that ends the resume, whichever kind it is: a stop, an exit or a
\* death by signal each print their line.
C16_ContinueReportsEveryStopEvent ==
    [][(cmd'.op = "Continue" /\ pc = "prompt" /\ HeldLive)
          => /\ traced' = 1
             /\ out' # <<>>
             /\ proc'[inferior] = "live" => out'[Len(out')] \in {"Child stopped", "Stopped at"}
             /\ proc'[inferior] = "reaped"
                    => out'[Len(out')] \in {"Continue: Child exited", "Child signaled"}]_vars

\* the stack can be read up to its last frame, every frame resolves, and
\* none is the entry function: the walk ends at a failing memory read
ReadFailsMidWalk(stack) ==
    /\ stack # <<>>
    /\ Unresolved(stack) = {}
    /\ first_main(stack, 1) = 0

\* C17: when a memory read fails during a backtrace, the walk stops there
\* without a fatal error: the frames walked up to the failing read are the
\* ones printed, at least one and in order, the entry function is not among
\* them (a strict prefix of the chain), and the session is at the prompt
\* with the child held and unchanged.
C17_ReadFailureKeepsFramesPrinted ==
    [][(cmd'.op = "Backtrace" /\ pc = "prompt" /\ HeldLive /\ ReadFailsMidWalk(chain))
          => /\ pc' = "prompt"
             /\ out' = frames(chain)
             /\ Len(out') >= 1
             /\ \A j \in 1..Len(out') : out'[j] # "main"
             /\ UNCHANGED <<inferior, proc, mem, orig_bytes, chain, breakpoints>>]_vars

\* a backtrace of a held child two frames deep, ended by a failing read
C17_Witness ==
    /\ cmd.op = "Backtrace"
    /\ pc = "prompt"
    /\ HeldLive
    /\ chain = <<2, 2>>
    /\ print_backtrace(TRUE, chain).end = "err"
    /\ out = <<"foo", "foo">>

ErrorLines(lines) == SelectSeq(lines, LAMBDA l : l = "Error setting breakpoint")

Requests(log, r) == Len(SelectSeq(log, LAMBDA x : x = r))

\* the writes of vector bps from the one after position u on: one error
\* line per unmapped address, the trap opcode at every mapped one
InstalledFrom(u, bps, m, lines) ==
    /\ Len(ErrorLines(lines)) = u + Cardinality({i \in (u + 1)..Len(bps) : ~IsMapped(bps[i])})
    /\ \A i \in (u + 1)..Len(bps) : IsMapped(bps[i]) => byte_at(m, bps[i]) = TrapOpcode

\* C18: a failing write while the breakpoints are installed is reported for
\* that address and aborts nothing: a continue on a stopped child prints
\* one error per address that cannot be written, patches every other
\* address of the vector, and resumes the child once after the last write;
\* a run that gets its child does the same from the first write that finds
\* the child stopped.
C18_InstallFailureDoesNotAbort ==
    [][/\ (cmd'.op = "Continue" /\ pc = "prompt" /\ HeldLive /\ breakpoints' = <<>>)
            => /\ InstalledFrom(0, breakpoints, mem', out')
               /\ Requests(sys', "write") = Len(breakpoints)
               /\ Requests(sys', "cont") = 1
               /\ traced' = 1
       /\ (cmd'.op = "Run" /\ spawned' = spawned + 1 /\ inferior' = spawned')
            => /\ \E u \in 0..Len(breakpoints) : InstalledFrom(u, breakpoints, mem', out')
               /\ Requests(sys', "write") = Len(breakpoints)
               /\ Requests(sys', "cont") = 1
               /\ traced' = 1]_vars

\* a continue whose first write failed and whose second one patched address 10
C18_Witness ==
    /\ cmd.op = "Continue"
    /\ sys = <<"write", "write", "cont", "wait">>
    /\ out = <<"Error setting breakpoint">>
    /\ breakpoints = <<>>
    /\ orig_bytes[10] # None
    /\ byte_at(mem, 10) = TrapOpcode
    /\ traced = 1

\* C19: an interrupt at the prompt neither kills the child nor ends the
\* session: the prompt is shown again and the held process, its memory and
\* the breakpoints are as before; run returns, with the child killed, only
\* on a quit command or on end of input.
C19_InterruptKeepsSession ==
    [][/\ cmd'.op = "Interrupt"
            => /\ pc' = "prompt"
               /\ UNCHANGED <<inferior, proc, spawned, mem, orig_bytes, chain, breakpoints>>
       /\ (pc = "prompt" /\ pc' = "returned")
            => /\ cmd'.op = "Quit"
               /\ inferior # None => proc'[inferior] # "live"]_vars

\* an interrupt taken while a stopped child is held
C19_Witness ==
    /\ cmd.op = "Interrupt"
    /\ out = <<"Type \"quit\" to exit">>
    /\ pc = "prompt"
    /\ HeldLive
    /\ chain # <<>>

RECURSIVE SubSeqAt(_, _, _)
\* the elements of s at the positions in I, in order, from position k on
SubSeqAt(s, I, k) ==
    IF k > Len(s) THEN <<>>
    ELSE (IF k \in I THEN <<s[k]>> ELSE <<>>) \o SubSeqAt(s, I, k + 1)

RECURSIVE IsSubsequence(_, _)
IsSubsequence(u, t) ==
    IF u = <<>> THEN TRUE
    ELSE IF t = <<>> THEN FALSE
    ELSE IF Head(u) = Head(t) THEN IsSubsequence(Tail(u), Tail(t))
    ELSE IsSubsequence(u, Tail(t))

\* the length of a longest common subsequence of s and t, by enumeration
LcsLength(s, t) ==
    LET common == {I \in SUBSET (1..Len(s)) : IsSubsequence(SubSeqAt(s, I, 1), t)}
    IN  CHOOSE n \in 0..Len(s) :
            /\ \E I \in common : Cardinality(I) = n
            /\ \A I \in common : Cardinality(I) <= n

\* C12: for every seq1 and seq2, lcs returns (without a panic) a grid of
\* len1 + 1 rows and len2 + 1 columns whose row 0 and column 0 are all 0
\* and whose entry (i, j) is the length of a longest common subsequence of
\* the first i elements of seq1 and the first j elements of seq2.
C12_GridHoldsLcsLengths ==
    /\ lcs.stage # "panicked"
    /\ lcs.stage = "done" =>
          LET len1 == Len(lcs.seq1)
              len2 == Len(lcs.seq2)
          IN  /\ grid_size(lcs.dp) = <<len1 + 1, len2 + 1>>
              /\ \A i \in 0..len1 : grid_get(lcs.dp, i, 0) = 0
              /\ \A j \in 0..len2 : grid_get(lcs.dp, 0, j) = 0
              /\ \A i \in 0..len1, j \in 0..len2 :
                    grid_get(lcs.dp, i, j)
                        = LcsLength(SubSeq(lcs.seq1, 1, i), SubSeq(lcs.seq2, 1, j))

\* the table of test_lcs: "abcd" against "adb"
C12_Witness ==
    /\ lcs.stage = "done"
    /\ lcs.seq1 = TestSeq1
    /\ lcs.seq2 = TestSeq2
    /\ grid_size(lcs.dp) = <<5, 4>>
    /\ grid_get(lcs.dp, 2, 3) = 2
    /\ grid_get(lcs.dp, 4, 2) = 2
    /\ grid_get(lcs.dp, 4, 3) = 2

PmRunning == pm.stage \notin {"none", "args"}

\* C20: for every input vector and num_threads >= 1, under every
\* interleaving of the workers, parallel_map returns (without a panic) a
\* vector of the input's length whose element i is f(input i); every input
\* is received by one worker only and once, and its result is stored once,
\* at its own index.
C20_ResultIsMapOfInput ==
    (PmRunning /\ pm.num_threads >= 1) =>
        /\ pm.stage # "panicked"
        /\ \A i \in DOMAIN pm.by : Len(pm.by[i]) <= 1 /\ pm.stored[i] <= Len(pm.by[i])
        /\ pm.stage = "done" =>
              /\ Len(pm.output_vec) = Len(pm.arg)
              /\ \A i \in 1..Len(pm.arg) : pm.output_vec[i] = f(pm.arg[i])
              /\ \A i \in DOMAIN pm.by : Len(pm.by[i]) = 1 /\ pm.stored[i] = 1

\* a call with two workers that returned, each worker having taken an input
C20_Witness ==
    /\ pm.stage = "done"
    /\ pm.num_threads = 2
    /\ pm.arg = <<2, 3, 2>>
    /\ pm.output_vec = <<4, 9, 4>>
    /\ pm.by[0] = <<2>>
    /\ pm.by[1] = <<1>>
    /\ pm.by[2] = <<2>>

\* main or a worker has a step to take
PmCanStep == ENABLED NextPmap

\* the spawned workers that have returned
PmExited == {t \in Workers : pm.w[t].pc = "exited"}

\* where the call stands is consistent with what has ended: a worker has
\* returned only on an empty input channel without sender, main is past the
\* joins only with every worker returned, and it has returned only on an
\* empty output channel without sender
PmEndedInOrder ==
    /\ PmExited # {} => pm.in_chan = <<>> /\ pm.in_senders = 0
    /\ pm.stage \in {"collect", "done"} =>
          /\ pm.joined = pm.num_threads
          /\ PmExited = 1..pm.num_threads
          /\ pm.out_senders = 0
    /\ pm.stage = "done" => pm.out_chan = <<>>

\* C21: for every input length and every num_threads, 0 included,
\* parallel_map terminates without deadlock: as long as it has not returned
\* some thread has a step to take and nothing panics, a worker returns only
\* once the input channel is empty and closed, every join returns, the
\* collection loop ends with every output sender dropped, and the call
\* returns in the end.
C21_TerminatesWithoutDeadlock ==
    /\ [](PmRunning => /\ pm.stage # "panicked"
                       /\ pm.stage # "done" => PmCanStep
                       /\ PmEndedInOrder)
    /\ <>(pm.stage = "done")

\* a call without any worker on two inputs or more, returned with the inputs
\* still in the channel
C21_Witness ==
    /\ pm.stage = "done"
    /\ pm.num_threads = 0
    /\ Len(pm.arg) >= 2
    /\ pm.in_chan # <<>>
    /\ pm.out_chan = <<>>
    /\ pm.out_senders = 0

====
